---------------------------- MODULE Spec2Model ----------------------------
(***************************************************************************)
(* A model of package extio: Broadcaster / BroadcasterReader, MultiWriter, *)
(* AsyncReader and ScannerWriter.  Every goroutine is a process whose      *)
(* steps are the channel operations of its code; a Go select over several  *)
(* ready cases is a nondeterministic choice among them; an unrecovered     *)
(* panic (close of a closed channel, send on a closed channel) stops the   *)
(* whole program.  The four adapters do not share state, so each has a     *)
(* specification of its own over its own variables.                        *)
(***************************************************************************)
EXTENDS Integers, Sequences, FiniteSets, TLC

(***************************************************************************)
(* Bounds of the model.                                                    *)
(***************************************************************************)
MaxReaders == 2
MaxSrcLen == 2
MaxSeg == 2
MaxChan == 1
MaxReadLen == 2
MaxEnvCalls == 2     \* calls of Abort and of BroadcasterReader.Close in one run
MaxInput == 3
MaxSinks == 2
MaxWrites == 2
MaxPayload == 2
MaxCloses == 2      \* calls of MultiWriter.Close in one run
MaxTokens == 4      \* tokens given to the callback of a ScannerWriter in one run

VARIABLES
    \* ---- Broadcaster (struct Broadcaster, part_001:8-25)
    source,          \* the bytes the io.Reader b.r will produce
    srcTerm,         \* the terminal condition b.r ends with: "EOF" or "SrcErr"
    srcPos,          \* how many bytes of source b.r has handed out
    ReadChanLength,  \* b.ReadChanLength
    ReadBufferSize,  \* b.ReadBufferSize
    brsArr,          \* backing array of the slice b.brs
    brsOff,          \* b.brs is brsArr[brsOff+1 .. Len(brsArr)]
    abort,           \* b.abort is closed
    \* ---- the goroutine running Broadcast()
    bpc,             \* "idle", "read", "deliver", "closing", "sending", "done"
    bbuf,            \* buf[:n], the segment being delivered
    berr,            \* the local variable err
    rngOff,          \* the slice header the range statement copied
    rngI,            \* the range index (0-based)
    bret,            \* what Broadcast returned, "none" before
    offered,         \* the readers the select of lines 105-113 was run for
                     \* in the delivery pass in progress
    \* ---- BroadcasterReaders and the goroutines calling Read and Close
    readers,
    \* ---- MultiWriter (struct MultiWriter, part_000:349-358)
    sinks,           \* the io.Writers given to NewMultiWriter, by behaviour
    WriteChanLength, \* mw.WriteChanLength
    inited,          \* mw.inited
    closed,          \* mw.closed
    mwErr,           \* mw.err (capacity 1), the queued errors
    mwErrClosed,
    wc,              \* mww.wc of every writer, the queued payloads
    wcClosed,
    wpc,             \* every worker goroutine: "none", "recv", "senderr",
                     \*   "defer", "sendcloseerr", "done"
    werr,            \* the error every worker is about to send on mw.err
    sinkData,        \* the bytes every sink has accepted
    sinkCloses,      \* how often every sink's Close was called
    \* ---- the goroutine calling Write and Close on the MultiWriter
    upc,             \* "idle", "write", "wrote", "wait", "closed"
    uI,              \* the range index of Write's loop (0-based)
    uData,           \* the payload of the Write in progress
    uRetN,           \* what Write returned, while upc = "wrote"
    uRetErr,         \* the error Write or Close returned
    writeCalls,      \* calls of Write so far
    written,         \* the payloads of the Writes made before the first Close
    closeCalls,      \* calls of Close so far
    firstErr,        \* the first error a sink has returned to a worker
    \* ---- AsyncReader (struct AsyncReader, async_reader.go:12-23)
    arSource,        \* the bytes the io.Reader ar.r will produce
    arTerm,          \* the terminal condition ar.r ends with: "EOF", "SrcErr"
    arPos,           \* how many bytes of arSource ar.r has handed out
    BufferSize,      \* ar.BufferSize
    ChannelSize,     \* ar.ChannelSize
    arC,             \* ar.c, the queued segments
    arCClosed,       \* ar.c is closed
    arAbort,         \* ar.abort is closed
    arBuf,           \* ar.buf
    \* ---- the goroutine of Start
    arGpc,           \* "none", "fill", "select", "done"
    arSeg,           \* the segment it is about to send
    \* ---- the goroutine calling Read and Close on the AsyncReader
    arRpc,           \* the Read call: "idle", "loop", "returned"
    arLen,           \* len(b) of the Read call
    arOut,           \* all bytes the Read calls have returned
    arRetN,          \* what the last Read call returned, while
    arRetErr,        \*   arRpc = "returned"
    \* ---- ScannerWriter (struct ScannerWriter, scanner_writer.go:12-20)
    swBuf,           \* sc.buf
    maxBufSize,      \* sc.maxBufSize
    swClosed,        \* sc.closed
    splitFunc,       \* sc.splitFunc, by name
    tokenFunc,       \* sc.tokenFunc, by behaviour
    \* ---- the goroutine calling Write, Flush and Close
    swInput,         \* the bytes the caller writes, chunk by chunk
    swPos,           \* how many of them it has written
    swPc,            \* "idle", or "scan": in the loop of Write
    swData,          \* the local variable data of Write
    swDataLen,       \* the local variable dataLen of Write
    swTokens,        \* the tokens given to sc.tokenFunc so far
    swRet,           \* what the last call returned
    swFailed,        \* some call has returned an error
    swEarlyFlush,    \* Flush or Close was called before the last Write
    swSplits,        \* the final-call flags of the calls of sc.splitFunc
                     \* made by the last operation
    swSwapped,       \* a function was replaced after construction
    \* ---- the program
    panicked         \* "none", or the run-time panic that ended the program

bVars == <<source, srcTerm, srcPos, ReadChanLength, ReadBufferSize, brsArr,
           brsOff, abort, bpc, bbuf, berr, rngOff, rngI, bret, offered,
           readers>>

mwVars == <<sinks, WriteChanLength, inited, closed, mwErr, mwErrClosed, wc,
            wcClosed, wpc, werr, sinkData, sinkCloses, upc, uI, uData, uRetN,
            uRetErr, writeCalls, written, closeCalls, firstErr>>

arVars == <<arSource, arTerm, arPos, BufferSize, ChannelSize, arC, arCClosed,
            arAbort, arBuf, arGpc, arSeg, arRpc, arLen, arOut, arRetN,
            arRetErr>>

swVars == <<swBuf, maxBufSize, swClosed, splitFunc, tokenFunc, swInput, swPos,
            swPc, swData, swDataLen, swTokens, swRet, swFailed, swEarlyFlush,
            swSplits, swSwapped>>

vars == <<bVars, mwVars, arVars, swVars, panicked>>

\* What the steps of one adapter leave alone: the other adapters.
notB == <<mwVars, arVars, swVars>>
notMW == <<bVars, arVars, swVars>>
notAR == <<bVars, mwVars, swVars>>
notSW == <<bVars, mwVars, arVars>>

(***************************************************************************)
(* Helpers.                                                                *)
(***************************************************************************)
Min2(a, b) == IF a < b THEN a ELSE b

MinOf(S) == CHOOSE x \in S : \A y \in S : x <= y

IsPrefix(s, t) == Len(s) <= Len(t) /\ SubSeq(t, 1, Len(s)) = s

ReaderIds == 1..MaxReaders

(***************************************************************************)
(* NewBroadcaster and NewReader.                                           *)
(***************************************************************************)
\* A reader as NewReader makes it, with the state of the goroutines using it.
NewReaderState ==
    [ buf      |-> <<>>,     \* br.buf
      data     |-> <<>>,     \* br.data, the queued segments
      dataClosed |-> FALSE,
      err      |-> <<>>,     \* br.err (capacity 2), the queued conditions
      errClosed |-> FALSE,
      shutdown |-> FALSE,    \* br.shutdown is closed
      last     |-> "nil",    \* br.last
      rpc      |-> "idle",   \* the Read call: "idle", "loop", "returned"
      rlen     |-> 0,        \* len(b) of the Read call in progress
      afterAbort |-> FALSE,  \* that call started after Abort
      out      |-> <<>>,     \* every byte Read has returned so far
      retN     |-> 0,        \* what the Read call returned, while
      retErr   |-> "nil",    \*   rpc = "returned"
      cpc      |-> "idle" ]  \* the Close call: "idle", "send", "done" 

ErrChanCap == 2

BInit ==
    /\ \E L \in 0..MaxSrcLen : source = [i \in 1..L |-> i]
    /\ srcTerm \in {"EOF", "SrcErr"}
    /\ srcPos = 0
    /\ ReadChanLength \in 0..MaxChan
    /\ ReadBufferSize \in 1..MaxSeg
    /\ brsArr = <<>>
    /\ brsOff = 0
    /\ abort = FALSE
    /\ bpc = "idle"
    /\ bbuf = <<>>
    /\ berr = "nil"
    /\ rngOff = 0
    /\ rngI = 0
    /\ bret = "none"
    /\ offered = {}
    /\ readers = [r \in ReaderIds |-> NewReaderState]
    /\ panicked = "none"

Running == panicked = "none"

\* The MultiWriter of a program that uses none.
MWIdle ==
    /\ sinks = <<>>
    /\ WriteChanLength = 0
    /\ inited = FALSE
    /\ closed = FALSE
    /\ mwErr = <<>>
    /\ mwErrClosed = FALSE
    /\ wc = <<>>
    /\ wcClosed = <<>>
    /\ wpc = <<>>
    /\ werr = <<>>
    /\ sinkData = <<>>
    /\ sinkCloses = <<>>
    /\ upc = "idle"
    /\ uI = 0
    /\ uData = <<>>
    /\ uRetN = 0
    /\ uRetErr = "nil"
    /\ writeCalls = 0
    /\ written = <<>>
    /\ closeCalls = 0
    /\ firstErr = "nil"

\* The ScannerWriter of a program that uses none.
SWIdle ==
    /\ swBuf = <<>>
    /\ maxBufSize = 1
    /\ swClosed = FALSE
    /\ splitFunc = "ScanBytes"
    /\ tokenFunc = "ok"
    /\ swInput = <<>>
    /\ swPos = 0
    /\ swPc = "idle"
    /\ swData = <<>>
    /\ swDataLen = 0
    /\ swTokens = <<>>
    /\ swRet = [op |-> "none", n |-> 0, err |-> "nil"]
    /\ swFailed = FALSE
    /\ swEarlyFlush = FALSE
    /\ swSplits = <<>>
    /\ swSwapped = FALSE

\* The AsyncReader of a program that uses none.
ARIdle ==
    /\ arSource = <<>>
    /\ arTerm = "EOF"
    /\ arPos = 0
    /\ BufferSize = 1
    /\ ChannelSize = 0
    /\ arC = <<>>
    /\ arCClosed = FALSE
    /\ arAbort = FALSE
    /\ arBuf = <<>>
    /\ arGpc = "none"
    /\ arSeg = [b |-> <<>>, err |-> "nil"]
    /\ arRpc = "idle"
    /\ arLen = 0
    /\ arOut = <<>>
    /\ arRetN = 0
    /\ arRetErr = "nil"

\* The Broadcaster of a program that uses none.
BIdle ==
    /\ source = <<>>
    /\ srcTerm = "EOF"
    /\ srcPos = 0
    /\ ReadChanLength = 0
    /\ ReadBufferSize = 1
    /\ brsArr = <<>>
    /\ brsOff = 0
    /\ abort = FALSE
    /\ bpc = "idle"
    /\ bbuf = <<>>
    /\ berr = "nil"
    /\ rngOff = 0
    /\ rngI = 0
    /\ bret = "none"
    /\ offered = {}
    /\ readers = [r \in ReaderIds |-> NewReaderState]
    /\ panicked = "none"

Registered(r) == r <= Len(brsArr)

\* b.brs as a sequence
Brs == SubSeq(brsArr, brsOff + 1, Len(brsArr))

NewReader ==
    /\ Running
    /\ bpc = "idle"
    /\ Len(brsArr) < MaxReaders
    /\ brsArr' = Append(brsArr, Len(brsArr) + 1)
    /\ UNCHANGED notB
    /\ UNCHANGED offered
    /\ UNCHANGED <<source, srcTerm, srcPos, ReadChanLength, ReadBufferSize,
                   brsOff, abort, bpc, bbuf, berr, rngOff, rngI, bret,
                   readers, panicked>>

bCfg == <<source, srcTerm, ReadChanLength, ReadBufferSize>>

(***************************************************************************)
(* BroadcasterReader.Read, part_001:134-173.                               *)
(***************************************************************************)
\* return n, err with n = Len(bytes)
ReadReturn(s, bytes, e) ==
    [s EXCEPT !.rpc = "returned", !.out = @ \o bytes, !.retN = Len(bytes),
              !.retErr = e]

\* Lines 154-171: what Read does once its loop is over.
ReadTail(s) ==
    IF Len(s.buf) > s.rlen
    THEN ReadReturn([s EXCEPT !.buf = SubSeq(@, s.rlen + 1, Len(@))],
                    SubSeq(s.buf, 1, s.rlen), "nil")
    ELSE IF Len(s.buf) > 0
    THEN ReadReturn([s EXCEPT !.buf = <<>>], s.buf, "nil")
    ELSE \* select { case br.last = <-br.err: default: }
         LET l == IF s.err # <<>> THEN Head(s.err)
                  ELSE IF s.errClosed THEN "nil"   \* receive on a closed channel
                  ELSE s.last
         IN ReadReturn([s EXCEPT !.last = l,
                                 !.err = IF @ # <<>> THEN Tail(@) ELSE @],
                       <<>>, l)

\* Line 150 and the loop test of line 141 that follows it.
ReadAppend(s, seg) ==
    LET t == [s EXCEPT !.buf = @ \o seg]
    IN IF Len(t.buf) < t.rlen THEN t ELSE ReadTail(t)

\* A Read that does not look at br.last first.
ReadEnterNoLast(s, n) ==
    LET t == [s EXCEPT !.rlen = n, !.afterAbort = abort]
    IN IF Len(t.buf) < n THEN [t EXCEPT !.rpc = "loop"]
       ELSE ReadTail(t)

\* Lines 136-141: the call, up to the first select.
ReadEnter(s, n) ==
    LET t == [s EXCEPT !.rlen = n, !.afterAbort = abort]
    IN IF t.last \in {"ErrClosed", "ErrAborted"}
       THEN ReadReturn(t, <<>>, t.last)
       ELSE IF Len(t.buf) < n THEN [t EXCEPT !.rpc = "loop"]
       ELSE ReadTail(t)

\* One goroutine uses a reader: its calls of Read and Close follow one another.
Read(r, n) ==
    /\ Running
    /\ Registered(r)
    /\ readers[r].rpc = "idle"
    /\ readers[r].cpc # "send"
    /\ readers' = [readers EXCEPT ![r] = ReadEnter(@, n)]
    /\ UNCHANGED notB
    /\ UNCHANGED offered
    /\ UNCHANGED <<bCfg, srcPos, brsArr, brsOff, abort, bpc, bbuf, berr,
                   rngOff, rngI, bret, panicked>>

\* The caller takes the results of the call; the next call may follow.
ReadDone(r) ==
    /\ Running
    /\ readers[r].rpc = "returned"
    /\ readers' = [readers EXCEPT ![r].rpc = "idle", ![r].rlen = 0,
                                  ![r].afterAbort = FALSE, ![r].retN = 0,
                                  ![r].retErr = "nil"]
    /\ UNCHANGED notB
    /\ UNCHANGED offered
    /\ UNCHANGED <<bCfg, srcPos, brsArr, brsOff, abort, bpc, bbuf, berr,
                   rngOff, rngI, bret, panicked>>

\* The select of lines 142-151, for a buffered br.data (and for a closed one).
ReadSelect(r) ==
    /\ Running
    /\ readers[r].rpc = "loop"
    /\ \/ /\ abort                                   \* case <-br.b.abort
          /\ readers' = [readers EXCEPT ![r] =
                 ReadReturn([@ EXCEPT !.last = "ErrAborted"], <<>>, "ErrAborted")]
       \/ /\ readers[r].data # <<>>                  \* case data, open := <-br.data
          /\ readers' = [readers EXCEPT ![r] =
                 ReadAppend([@ EXCEPT !.data = Tail(@)], Head(readers[r].data))]
       \/ /\ readers[r].data = <<>>                  \* !open: break LOOP
          /\ readers[r].dataClosed
          /\ readers' = [readers EXCEPT ![r] = ReadTail(@)]
    /\ UNCHANGED notB
    /\ UNCHANGED offered
    /\ UNCHANGED <<bCfg, srcPos, brsArr, brsOff, abort, bpc, bbuf, berr,
                   rngOff, rngI, bret, panicked>>

\* Calls of Abort and of Close made so far.
EnvCalls ==
    Cardinality({r \in ReaderIds : readers[r].cpc # "idle"})
        + (IF abort THEN 1 ELSE 0)

(***************************************************************************)
(* BroadcasterReader.Close, part_001:178-182, in its two channel steps.    *)
(***************************************************************************)
Close(r) ==
    /\ Running
    /\ EnvCalls < MaxEnvCalls
    /\ Registered(r)
    /\ readers[r].rpc = "idle"
    /\ readers[r].cpc = "idle"
    /\ IF readers[r].shutdown
       THEN panicked' = "Close: close of closed channel" /\ readers' = readers
       ELSE /\ readers' = [readers EXCEPT ![r].shutdown = TRUE, ![r].cpc = "send"]
            /\ panicked' = panicked
    /\ UNCHANGED notB
    /\ UNCHANGED offered
    /\ UNCHANGED <<bCfg, srcPos, brsArr, brsOff, abort, bpc, bbuf, berr,
                   rngOff, rngI, bret>>

CloseSend(r) ==
    /\ Running
    /\ readers[r].cpc = "send"
    /\ IF readers[r].errClosed
       THEN panicked' = "Close: send on closed channel" /\ readers' = readers
       ELSE /\ Len(readers[r].err) < ErrChanCap
            /\ readers' = [readers EXCEPT ![r].err = Append(@, "ErrClosed"),
                                          ![r].cpc = "done"]
            /\ panicked' = panicked
    /\ UNCHANGED notB
    /\ UNCHANGED offered
    /\ UNCHANGED <<bCfg, srcPos, brsArr, brsOff, abort, bpc, bbuf, berr,
                   rngOff, rngI, bret>>

(***************************************************************************)
(* Broadcaster.Abort, part_001:128-130.                                    *)
(***************************************************************************)
Abort ==
    /\ Running
    /\ EnvCalls < MaxEnvCalls
    /\ IF abort
       THEN panicked' = "Abort: close of closed channel" /\ abort' = abort
       ELSE abort' = TRUE /\ panicked' = panicked
    /\ UNCHANGED notB
    /\ UNCHANGED offered
    /\ UNCHANGED <<bCfg, srcPos, brsArr, brsOff, bpc, bbuf, berr, rngOff,
                   rngI, bret, readers>>

(***************************************************************************)
(* deleteBroadcasterReader, part_001:188-199, on the slice                 *)
(* arr[off+1 .. Len(arr)]: the found element is overwritten by the first   *)
(* one and the slice loses its first element.                              *)
(***************************************************************************)
\* A delete that slices the first element off without copying it over the
\* found one.
deleteFirstReader(arr, off, br) ==
    IF \E i \in (off + 1)..Len(arr) : arr[i] = br
    THEN [arr |-> arr, off |-> off + 1]
    ELSE [arr |-> arr, off |-> off]

deleteBroadcasterReader(arr, off, br) ==
    LET idx == {i \in (off + 1)..Len(arr) : arr[i] = br}
    IN IF idx = {} THEN [arr |-> arr, off |-> off]
       ELSE LET i == MinOf(idx)
            IN [arr |-> IF i > off + 1 THEN [arr EXCEPT ![i] = arr[off + 1]]
                        ELSE arr,
                off |-> off + 1]

(***************************************************************************)
(* Broadcaster.Broadcast, part_001:79-124.                                 *)
(***************************************************************************)
BroadcastStart ==
    /\ Running
    /\ bpc = "idle"
    /\ bpc' = "read"
    /\ UNCHANGED notB
    /\ UNCHANGED offered
    /\ UNCHANGED <<bCfg, srcPos, brsArr, brsOff, abort, bbuf, berr, rngOff,
                   rngI, bret, readers, panicked>>

\* The terminal conditions the inner loop of lines 97-101 can end with when
\* rem bytes of the source are left: a source may report its end together
\* with its last bytes or on the call after them.
FillErrs(rem) ==
    IF rem < ReadBufferSize THEN {srcTerm}
    ELSE IF rem = ReadBufferSize THEN {"nil", srcTerm}
    ELSE {"nil"}

\* Lines 116-121, with the err the pass ended with.
AfterPass(e) ==
    IF e # "nil"
    THEN /\ bpc' = "closing"
         /\ bret' = IF e = "EOF" THEN "nil" ELSE e
    ELSE /\ bpc' = "read"
         /\ bret' = bret

\* Lines 95-103: one segment is filled; the range of line 104 starts.
BroadcastRead ==
    /\ Running
    /\ bpc = "read"
    /\ LET rem == Len(source) - srcPos
           n == Min2(ReadBufferSize, rem)
       IN \E e \in FillErrs(rem) :
            /\ srcPos' = srcPos + n
            /\ bbuf' = SubSeq(source, srcPos + 1, srcPos + n)
            /\ berr' = e
            /\ IF n > 0 /\ brsOff < Len(brsArr)
               THEN /\ bpc' = "deliver"
                    /\ rngOff' = brsOff
                    /\ rngI' = 0
                    /\ bret' = bret
               ELSE /\ AfterPass(e)
                    /\ UNCHANGED <<rngOff, rngI>>
    /\ UNCHANGED notB
    /\ offered' = {}
    /\ UNCHANGED <<bCfg, brsArr, brsOff, abort, readers, panicked>>

\* The reader the range statement is at.
CurReader == brsArr[rngOff + rngI + 1]

\* The range statement moves on, or ends and lines 116-121 follow.
NextInRange ==
    IF rngI + 1 < Len(brsArr) - rngOff
    THEN /\ rngI' = rngI + 1
         /\ UNCHANGED <<bpc, bret>>
    ELSE /\ AfterPass(berr)
         /\ rngI' = rngI

\* case br.data <- buf (line 106).  On an unbuffered channel the send
\* happens together with the receive of the reader in its select, and one
\* of the two goroutines must have been parked there for the other to find
\* it: neither parks once b.abort is closed, a case ready in both selects.
DeliverSend ==
    /\ Running
    /\ bpc = "deliver"
    /\ LET br == CurReader
       IN IF ReadChanLength = 0
          THEN /\ readers[br].rpc = "loop"
               /\ ~abort
               /\ readers' = [readers EXCEPT ![br] = ReadAppend(@, bbuf)]
          ELSE /\ Len(readers[br].data) < ReadChanLength
               /\ readers' = [readers EXCEPT ![br].data = Append(@, bbuf)]
    /\ NextInRange
    /\ UNCHANGED notB
    /\ offered' = IF bpc' = "deliver" THEN offered \cup {CurReader} ELSE {}
    /\ UNCHANGED <<bCfg, srcPos, brsArr, brsOff, abort, bbuf, berr, rngOff,
                   panicked>>

\* case <-br.shutdown (lines 107-110)
DeliverDetach ==
    /\ Running
    /\ bpc = "deliver"
    /\ readers[CurReader].shutdown
    /\ IF readers[CurReader].dataClosed \/ readers[CurReader].errClosed
       THEN /\ panicked' = "Broadcast: close of closed channel"
            /\ UNCHANGED <<readers, brsArr, brsOff, bpc, bret, rngI>>
       ELSE /\ readers' = [readers EXCEPT ![CurReader].dataClosed = TRUE,
                                          ![CurReader].errClosed = TRUE]
            /\ LET d == deleteBroadcasterReader(brsArr, brsOff, CurReader)
               IN brsArr' = d.arr /\ brsOff' = d.off
            /\ NextInRange
            /\ panicked' = panicked
    /\ UNCHANGED notB
    /\ offered' = IF bpc' = "deliver" /\ panicked' = "none"
                   THEN offered \cup {CurReader}
                   ELSE IF panicked' = "none" THEN {} ELSE offered
    /\ UNCHANGED <<bCfg, srcPos, abort, bbuf, berr, rngOff>>

\* case <-b.abort: return ErrAborted (lines 111-112)
DeliverAbort ==
    /\ Running
    /\ bpc = "deliver"
    /\ abort
    /\ bpc' = "closing"
    /\ bret' = "ErrAborted"
    /\ UNCHANGED notB
    /\ offered' = {}
    /\ UNCHANGED <<bCfg, srcPos, brsArr, brsOff, abort, bbuf, berr, rngOff,
                   rngI, readers, panicked>>

\* The deferred function, lines 84-86: close(br.data) for every br of b.brs.
BroadcastCloseData ==
    /\ Running
    /\ bpc = "closing"
    /\ LET S == {Brs[i] : i \in 1..Len(Brs)}
       IN IF \E r \in S : readers[r].dataClosed
          THEN /\ panicked' = "Broadcast: close of closed channel"
               /\ UNCHANGED <<readers, bpc>>
          ELSE /\ readers' = [r \in ReaderIds |->
                     IF r \in S THEN [readers[r] EXCEPT !.dataClosed = TRUE]
                     ELSE readers[r]]
               /\ bpc' = "sending"
               /\ panicked' = panicked
    /\ UNCHANGED notB
    /\ UNCHANGED offered
    /\ UNCHANGED <<bCfg, srcPos, brsArr, brsOff, abort, bbuf, berr, rngOff,
                   rngI, bret>>

\* The deferred function, lines 87-91: the local err (which a return of
\* ErrAborted does not assign) is sent to every br of b.brs.
BroadcastSendErr ==
    /\ Running
    /\ bpc = "sending"
    /\ LET S == IF berr # "ErrAborted" THEN {Brs[i] : i \in 1..Len(Brs)} ELSE {}
       IN IF \E r \in S : readers[r].errClosed
          THEN /\ panicked' = "Broadcast: send on closed channel"
               /\ UNCHANGED <<readers, bpc>>
          ELSE /\ \A r \in S : Len(readers[r].err) < ErrChanCap
               /\ readers' = [r \in ReaderIds |->
                     IF r \in S THEN [readers[r] EXCEPT !.err = Append(@, berr)]
                     ELSE readers[r]]
               /\ bpc' = "done"
               /\ panicked' = panicked
    /\ UNCHANGED notB
    /\ UNCHANGED offered
    /\ UNCHANGED <<bCfg, srcPos, brsArr, brsOff, abort, bbuf, berr, rngOff,
                   rngI, bret>>

BNext ==
    \/ NewReader
    \/ BroadcastStart
    \/ BroadcastRead
    \/ DeliverSend
    \/ DeliverDetach
    \/ DeliverAbort
    \/ BroadcastCloseData
    \/ BroadcastSendErr
    \/ Abort
    \/ \E r \in ReaderIds : \E n \in 0..MaxReadLen : Read(r, n)
    \/ \E r \in ReaderIds : ReadSelect(r)
    \/ \E r \in ReaderIds : ReadDone(r)
    \/ \E r \in ReaderIds : Close(r)
    \/ \E r \in ReaderIds : CloseSend(r)

InitB == BInit /\ MWIdle /\ ARIdle /\ SWIdle

SpecB == InitB /\ [][BNext]_vars

(***************************************************************************)
(* MultiWriter (multi_writer.go, part_000:336-472).                        *)
(*                                                                         *)
(* A sink is an io.Writer, given by what its Write does ("ok", "err":      *)
(* returns an error, "short": accepts all but the last byte and returns no *)
(* error) and by its Close ("none": the sink is no io.WriteCloser, "ok",   *)
(* "err": returns an error).  One goroutine calls Write and Close, one     *)
(* after the other; every sink has its worker goroutine.                   *)
(***************************************************************************)
SinkKinds == [write : {"ok", "err", "short"}, close : {"none", "ok", "err"}]

SinkIds == 1..Len(sinks)

\* Sequences of sinks of length 0..MaxSinks.
SinkSeqs == UNION {[1..n -> SinkKinds] : n \in 0..MaxSinks}

\* The payloads of the next Write: 0..MaxPayload bytes, each the number of
\* the call.
Payloads == {[k \in 1..n |-> writeCalls + 1] : n \in 0..MaxPayload}

\* make(chan error, 1) of NewMultiWriter.
MWErrChanCap == 1

\* NewMultiWriter, and the WriteChanLength the caller sets before writing.
MWInit ==
    /\ sinks \in SinkSeqs
    /\ WriteChanLength \in 0..MaxChan
    /\ inited = FALSE
    /\ closed = FALSE
    /\ mwErr = <<>>
    /\ mwErrClosed = FALSE
    /\ wc = [i \in SinkIds |-> <<>>]
    /\ wcClosed = [i \in SinkIds |-> FALSE]
    /\ wpc = [i \in SinkIds |-> "none"]
    /\ werr = [i \in SinkIds |-> "nil"]
    /\ sinkData = [i \in SinkIds |-> <<>>]
    /\ sinkCloses = [i \in SinkIds |-> 0]
    /\ upc = "idle"
    /\ uI = 0
    /\ uData = <<>>
    /\ uRetN = 0
    /\ uRetErr = "nil"
    /\ writeCalls = 0
    /\ written = <<>>
    /\ closeCalls = 0
    /\ firstErr = "nil"

mwCfg == <<sinks, WriteChanLength>>

\* The caller is between two calls.
UserFree == upc \in {"idle", "wrote", "closed"}

\* A Write without the closed check of lines 429-431.
WriteStartUnchecked(data) ==
    /\ Running
    /\ UserFree
    /\ writeCalls < MaxWrites
    /\ writeCalls' = writeCalls + 1
    /\ uData' = data
    /\ uI' = 0
    /\ upc' = "write"
    /\ uRetN' = 0
    /\ uRetErr' = "nil"
    /\ inited' = TRUE
    /\ wpc' = IF inited THEN wpc ELSE [i \in SinkIds |-> "recv"]
    /\ written' = written \o data
    /\ UNCHANGED <<mwCfg, firstErr, closed, mwErr, mwErrClosed, wc, wcClosed,
                   werr, sinkData, sinkCloses, closeCalls, panicked>>
    /\ UNCHANGED notMW

\* Write, lines 429-436: the closed check, init() on the first call, and the
\* entry of the loop over mw.writers.
WriteStart(data) ==
    /\ Running
    /\ UserFree
    /\ writeCalls < MaxWrites
    /\ writeCalls' = writeCalls + 1
    /\ uData' = data
    /\ uI' = 0
    /\ IF closed
       THEN /\ upc' = "wrote"
            /\ uRetN' = 0
            /\ uRetErr' = "ErrClosed"
            /\ UNCHANGED <<inited, wpc, written>>
       ELSE /\ upc' = "write"
            /\ uRetN' = 0
            /\ uRetErr' = "nil"
            /\ inited' = TRUE
            /\ wpc' = IF inited THEN wpc ELSE [i \in SinkIds |-> "recv"]
            /\ written' = written \o data
    /\ UNCHANGED <<mwCfg, firstErr, closed, mwErr, mwErrClosed, wc, wcClosed, werr,
                   sinkData, sinkCloses, closeCalls, panicked>>
    /\ UNCHANGED notMW

\* case mww.wc <- data (line 439).  An unbuffered channel hands the payload
\* to the worker parked in its range statement; the worker holds it until
\* its next step.
WriteSend ==
    /\ Running
    /\ upc = "write"
    /\ uI < Len(sinks)
    /\ LET i == uI + 1
       IN /\ IF WriteChanLength = 0
             THEN wpc[i] = "recv" /\ wc[i] = <<>>
             ELSE Len(wc[i]) < WriteChanLength
          /\ wc' = [wc EXCEPT ![i] = Append(@, uData)]
    /\ uI' = uI + 1
    /\ UNCHANGED <<mwCfg, firstErr, inited, closed, mwErr, mwErrClosed, wcClosed, wpc,
                   werr, sinkData, sinkCloses, upc, uData, uRetN, uRetErr,
                   writeCalls, written, closeCalls, panicked>>
    /\ UNCHANGED notMW

\* case err := <-mw.err: return 0, err (lines 440-441).
WriteRecvErr ==
    /\ Running
    /\ upc = "write"
    /\ uI < Len(sinks)
    /\ mwErr # <<>>
    /\ mwErr' = Tail(mwErr)
    /\ upc' = "wrote"
    /\ uRetN' = 0
    /\ uRetErr' = Head(mwErr)
    /\ UNCHANGED <<mwCfg, firstErr, inited, closed, mwErrClosed, wc, wcClosed, wpc, werr,
                   sinkData, sinkCloses, uI, uData, writeCalls, written,
                   closeCalls, panicked>>
    /\ UNCHANGED notMW

\* return len(data), nil (line 445).
WriteReturn ==
    /\ Running
    /\ upc = "write"
    /\ uI = Len(sinks)
    /\ upc' = "wrote"
    /\ uRetN' = Len(uData)
    /\ uRetErr' = "nil"
    /\ UNCHANGED <<mwCfg, firstErr, inited, closed, mwErr, mwErrClosed, wc, wcClosed,
                   wpc, werr, sinkData, sinkCloses, uI, uData, writeCalls,
                   written, closeCalls, panicked>>
    /\ UNCHANGED notMW

\* What mww.w.Write(data) leaves in the sink, and the error the worker
\* reports for it (lines 405-411).
SinkAccepts(k, data) ==
    IF k.write = "ok" THEN data
    ELSE IF k.write = "short" /\ Len(data) > 0
    THEN SubSeq(data, 1, Len(data) - 1)
    ELSE <<>>

\* A worker that does not compare n with len(data).
SinkWriteErrOnly(k) == IF k.write = "err" THEN "writeErr" ELSE "nil"

SinkWriteErr(k) ==
    IF k.write = "err" THEN "writeErr"
    ELSE IF k.write = "short" THEN "ErrShortWrite"
    ELSE "nil"

\* for data := range mww.wc, and the Write to the sink (lines 404-412).
WorkerRecv(i) ==
    /\ Running
    /\ wpc[i] = "recv"
    /\ IF wc[i] # <<>>
       THEN LET data == Head(wc[i])
                e == SinkWriteErr(sinks[i])
            IN /\ wc' = [wc EXCEPT ![i] = Tail(@)]
               /\ sinkData' = [sinkData EXCEPT
                                 ![i] = @ \o SinkAccepts(sinks[i], data)]
               /\ werr' = [werr EXCEPT ![i] = e]
               /\ wpc' = [wpc EXCEPT ![i] = IF e = "nil" THEN "recv"
                                            ELSE "senderr"]
       ELSE /\ wcClosed[i]
            /\ wpc' = [wpc EXCEPT ![i] = "defer"]
            /\ UNCHANGED <<wc, sinkData, werr>>
    /\ firstErr' = IF firstErr = "nil" /\ wc[i] # <<>>
                   THEN SinkWriteErr(sinks[i]) ELSE firstErr
    /\ UNCHANGED <<mwCfg, inited, closed, mwErr, mwErrClosed, wcClosed,
                   sinkCloses, upc, uI, uData, uRetN, uRetErr, writeCalls,
                   written, closeCalls, panicked>>
    /\ UNCHANGED notMW

\* mw.err <- err; return (lines 406-407, 409-410): blocks while mw.err is full.
WorkerSendErr(i) ==
    /\ Running
    /\ wpc[i] = "senderr"
    /\ Len(mwErr) < MWErrChanCap
    /\ mwErr' = Append(mwErr, werr[i])
    /\ werr' = [werr EXCEPT ![i] = "nil"]
    /\ wpc' = [wpc EXCEPT ![i] = "defer"]
    /\ UNCHANGED <<mwCfg, firstErr, inited, closed, mwErrClosed, wc, wcClosed, sinkData,
                   sinkCloses, upc, uI, uData, uRetN, uRetErr, writeCalls,
                   written, closeCalls, panicked>>
    /\ UNCHANGED notMW

\* The deferred function (lines 396-403): Close of a sink that is an
\* io.WriteCloser, then wg.Done() unless the Close failed.
WorkerDefer(i) ==
    /\ Running
    /\ wpc[i] = "defer"
    /\ sinkCloses' = [sinkCloses EXCEPT
                        ![i] = IF sinks[i].close = "none" THEN @ ELSE @ + 1]
    /\ werr' = [werr EXCEPT
                  ![i] = IF sinks[i].close = "err" THEN "closeErr" ELSE "nil"]
    /\ wpc' = [wpc EXCEPT
                 ![i] = IF sinks[i].close = "err" THEN "sendcloseerr"
                        ELSE "done"]
    /\ firstErr' = IF firstErr = "nil" /\ sinks[i].close = "err"
                   THEN "closeErr" ELSE firstErr
    /\ UNCHANGED <<mwCfg, inited, closed, mwErr, mwErrClosed, wc, wcClosed,
                   sinkData, upc, uI, uData, uRetN, uRetErr, writeCalls,
                   written, closeCalls, panicked>>
    /\ UNCHANGED notMW

\* mw.err <- err of the deferred function (line 399), then wg.Done().
WorkerSendCloseErr(i) ==
    /\ Running
    /\ wpc[i] = "sendcloseerr"
    /\ Len(mwErr) < MWErrChanCap
    /\ mwErr' = Append(mwErr, werr[i])
    /\ werr' = [werr EXCEPT ![i] = "nil"]
    /\ wpc' = [wpc EXCEPT ![i] = "done"]
    /\ UNCHANGED <<mwCfg, firstErr, inited, closed, mwErrClosed, wc, wcClosed, sinkData,
                   sinkCloses, upc, uI, uData, uRetN, uRetErr, writeCalls,
                   written, closeCalls, panicked>>
    /\ UNCHANGED notMW

\* Close up to mw.wg.Wait() (lines 457-463).  Closing a channel that is
\* closed already is a run-time panic.
CloseStart ==
    /\ Running
    /\ UserFree
    /\ closeCalls < MaxCloses
    /\ closeCalls' = closeCalls + 1
    /\ closed' = TRUE
    /\ IF ~inited
       THEN /\ upc' = "closed"
            /\ uRetErr' = "nil"
            /\ UNCHANGED <<wcClosed, panicked>>
       ELSE IF \E i \in SinkIds : wcClosed[i]
       THEN /\ panicked' = "MultiWriter.Close: close of closed channel"
            /\ UNCHANGED <<wcClosed, upc, uRetErr>>
       ELSE /\ wcClosed' = [i \in SinkIds |-> TRUE]
            /\ upc' = "wait"
            /\ UNCHANGED <<uRetErr, panicked>>
    /\ UNCHANGED <<mwCfg, firstErr, inited, mwErr, mwErrClosed, wc, wpc, werr, sinkData,
                   sinkCloses, uI, uData, uRetN, writeCalls, written>>
    /\ UNCHANGED notMW

\* A Close that does not wait for the workers.
WorkersNotAwaited == TRUE

\* mw.wg.Wait() returns once every worker has called wg.Done().
WorkersDone == \A i \in SinkIds : wpc[i] = "done"

\* Close from mw.wg.Wait() on (lines 464-467): close(mw.err), and the
\* receive from the closed channel, which yields what is queued, or nil.
CloseWait ==
    /\ Running
    /\ upc = "wait"
    /\ WorkersDone
    /\ IF mwErrClosed
       THEN /\ panicked' = "MultiWriter.Close: close of closed channel"
            /\ UNCHANGED <<mwErr, mwErrClosed, upc, uRetErr>>
       ELSE /\ mwErrClosed' = TRUE
            /\ upc' = "closed"
            /\ uRetErr' = IF mwErr # <<>> THEN Head(mwErr) ELSE "nil"
            /\ mwErr' = IF mwErr # <<>> THEN Tail(mwErr) ELSE mwErr
            /\ UNCHANGED panicked
    /\ UNCHANGED <<mwCfg, firstErr, inited, closed, wc, wcClosed, wpc, werr, sinkData,
                   sinkCloses, uI, uData, uRetN, writeCalls, written,
                   closeCalls>>
    /\ UNCHANGED notMW

MWNext ==
    \/ \E data \in Payloads : WriteStart(data)
    \/ WriteSend
    \/ WriteRecvErr
    \/ WriteReturn
    \/ CloseStart
    \/ CloseWait
    \/ \E i \in SinkIds : WorkerRecv(i)
    \/ \E i \in SinkIds : WorkerSendErr(i)
    \/ \E i \in SinkIds : WorkerDefer(i)
    \/ \E i \in SinkIds : WorkerSendCloseErr(i)

InitMW == MWInit /\ BIdle /\ ARIdle /\ SWIdle

SpecMW == InitMW /\ [][MWNext]_vars

(***************************************************************************)
(* AsyncReader (async_reader.go).                                          *)
(*                                                                         *)
(* One goroutine, started by Start, fills segments from the source and     *)
(* sends them on ar.c; one goroutine calls Read and Close.                 *)
(***************************************************************************)
\* NewAsyncReader, and the BufferSize and ChannelSize the caller sets before
\* Start.
ARInit ==
    /\ \E L \in 0..MaxSrcLen : arSource = [i \in 1..L |-> i]
    /\ arTerm \in {"EOF", "SrcErr"}
    /\ arPos = 0
    /\ BufferSize \in 0..MaxSeg
    /\ ChannelSize \in 0..MaxChan
    /\ arGpc = "none"
    /\ arSeg = [b |-> <<>>, err |-> "nil"]
    /\ arC = <<>>
    /\ arCClosed = FALSE
    /\ arAbort = FALSE
    /\ arBuf = <<>>
    /\ arRpc = "idle"
    /\ arLen = 0
    /\ arOut = <<>>
    /\ arRetN = 0
    /\ arRetErr = "nil"

arCfg == <<arSource, arTerm, BufferSize, ChannelSize>>

\* Start (lines 41-60): the channel is made and the goroutine is spawned.
ARStart ==
    /\ Running
    /\ arGpc = "none"
    /\ arGpc' = "fill"
    /\ UNCHANGED <<arCfg, arPos, arSeg, arC, arCClosed, arAbort, arBuf, arRpc,
                   arLen, arOut, arRetN, arRetErr, panicked>>
    /\ UNCHANGED notAR

\* io.ReadFull(ar.r, buf) on a source with rem bytes left that ends with the
\* condition term: the bytes read and the error.  A buffer of length 0 is
\* full at once: (0, nil).
ReadFull(size, rem, term) ==
    IF rem >= size THEN [n |-> size, err |-> "nil"]
    ELSE IF rem > 0
    THEN [n |-> rem,
          err |-> IF term = "EOF" THEN "ErrUnexpectedEOF" ELSE term]
    ELSE [n |-> 0, err |-> term]

\* buf := ar.bufs.Get(); n, err := io.ReadFull(ar.r, buf) (lines 47-48).
ARFill ==
    /\ Running
    /\ arGpc = "fill"
    /\ LET res == ReadFull(BufferSize, Len(arSource) - arPos, arTerm)
       IN /\ arSeg' = [b |-> SubSeq(arSource, arPos + 1, arPos + res.n),
                       err |-> res.err]
          /\ arPos' = arPos + res.n
    /\ arGpc' = "select"
    /\ UNCHANGED <<arCfg, arC, arCClosed, arAbort, arBuf, arRpc, arLen, arOut,
                   arRetN, arRetErr, panicked>>
    /\ UNCHANGED notAR

\* The return statements of Read.
ARReadReturn(bytes, e) ==
    /\ arRpc' = "returned"
    /\ arOut' = arOut \o bytes
    /\ arRetN' = Len(bytes)
    /\ arRetErr' = e

\* Read after its loop (lines 84-97), with the reassembly buffer buf and a
\* caller's buffer of length n.
ARReadTail(buf, n) ==
    IF Len(buf) > n
    THEN /\ ARReadReturn(SubSeq(buf, 1, n), "nil")
         /\ arBuf' = SubSeq(buf, n + 1, Len(buf))
    ELSE IF Len(buf) > 0
    THEN /\ ARReadReturn(buf, "nil")
         /\ arBuf' = <<>>
    ELSE /\ ARReadReturn(<<>>, "EOF")
         /\ arBuf' = <<>>

\* case s, open = <-ar.c with open true (lines 72-81).
ARReadSegment(s) ==
    IF s.err \notin {"nil", "EOF", "ErrUnexpectedEOF"}
    THEN /\ ARReadReturn(<<>>, s.err)
         /\ arBuf' = arBuf
    ELSE IF Len(arBuf \o s.b) < arLen
    THEN /\ arBuf' = arBuf \o s.b
         /\ UNCHANGED <<arRpc, arOut, arRetN, arRetErr>>
    ELSE ARReadTail(arBuf \o s.b, arLen)

\* case ar.c <- segment{...} (line 52), and what follows it (lines 54-57,
\* the deferred close(ar.c)).  An unbuffered channel hands the segment to
\* the Read parked in its select.
ARSend ==
    /\ Running
    /\ arGpc = "select"
    /\ IF ChannelSize = 0
       THEN /\ arRpc = "loop"
            /\ ~arAbort
            /\ ARReadSegment(arSeg)
            /\ arC' = arC
       ELSE /\ Len(arC) < ChannelSize
            /\ arC' = Append(arC, arSeg)
            /\ UNCHANGED <<arBuf, arRpc, arOut, arRetN, arRetErr>>
    /\ arGpc' = IF arSeg.err = "nil" THEN "fill" ELSE "done"
    /\ arCClosed' = (arSeg.err # "nil")
    /\ UNCHANGED <<arCfg, arPos, arSeg, arAbort, arLen, panicked>>
    /\ UNCHANGED notAR

\* case <-ar.abort: return (lines 50-51), and the deferred close(ar.c).
ARAbortSeen ==
    /\ Running
    /\ arGpc = "select"
    /\ arAbort
    /\ arGpc' = "done"
    /\ arCClosed' = TRUE
    /\ UNCHANGED <<arCfg, arPos, arSeg, arC, arAbort, arBuf, arRpc, arLen,
                   arOut, arRetN, arRetErr, panicked>>
    /\ UNCHANGED notAR

\* Read is called with a buffer of length n on a started AsyncReader: the
\* loop condition (line 66), and lines 84-97 when the loop is not entered.
ARRead(n) ==
    /\ Running
    /\ arGpc # "none"
    /\ arRpc \in {"idle", "returned"}
    /\ arLen' = n
    /\ IF Len(arBuf) < n
       THEN /\ arRpc' = "loop"
            /\ arRetN' = 0
            /\ arRetErr' = "nil"
            /\ UNCHANGED <<arBuf, arOut>>
       ELSE ARReadTail(arBuf, n)
    /\ UNCHANGED <<arCfg, arPos, arGpc, arSeg, arC, arCClosed, arAbort,
                   panicked>>
    /\ UNCHANGED notAR

\* The select of Read (lines 67-82) for a queued segment, a closed channel or
\* a closed abort channel; when several cases are ready any of them is taken.
ARReadSelect ==
    /\ Running
    /\ arRpc = "loop"
    /\ \/ /\ arAbort
          /\ ARReadReturn(<<>>, "nil")
          /\ UNCHANGED <<arC, arBuf>>
       \/ /\ arC # <<>>
          /\ arC' = Tail(arC)
          /\ ARReadSegment(Head(arC))
       \/ /\ arC = <<>>
          /\ arCClosed
          /\ ARReadTail(arBuf, arLen)
          /\ arC' = arC
    /\ UNCHANGED <<arCfg, arPos, arGpc, arSeg, arCClosed, arAbort, arLen,
                   panicked>>
    /\ UNCHANGED notAR

\* Close (lines 102-105): close(ar.abort); closing it again is a run-time
\* panic.  Close may be called while a Read is in progress.
ARClose ==
    /\ Running
    /\ IF arAbort
       THEN /\ panicked' = "AsyncReader.Close: close of closed channel"
            /\ UNCHANGED arAbort
       ELSE /\ arAbort' = TRUE
            /\ UNCHANGED panicked
    /\ UNCHANGED <<arCfg, arPos, arGpc, arSeg, arC, arCClosed, arBuf, arRpc,
                   arLen, arOut, arRetN, arRetErr>>
    /\ UNCHANGED notAR

ARNext ==
    \/ ARStart
    \/ ARFill
    \/ ARSend
    \/ ARAbortSeen
    \/ \E n \in 0..MaxReadLen : ARRead(n)
    \/ ARReadSelect
    \/ ARClose

InitAR == ARInit /\ BIdle /\ MWIdle /\ SWIdle

SpecAR == InitAR /\ [][ARNext]_vars

\* The caller of TestAsyncReader: ioutil.ReadAll, which calls Read with a
\* non-empty buffer until Read returns an error, and never calls Close.
ARReadAll ==
    /\ arRpc = "returned" => arRetErr = "nil"
    /\ \E n \in 1..MaxReadLen : ARRead(n)

ARProducer == ARStart \/ ARFill \/ ARSend

ARConsumer == ARReadAll \/ ARReadSelect

ARNextReadAll == ARProducer \/ ARConsumer

\* Both goroutines are scheduled as long as they can take a step.
SpecARReadAll ==
    /\ InitAR
    /\ [][ARNextReadAll]_vars
    /\ WF_vars(ARProducer)
    /\ WF_vars(ARConsumer)

(***************************************************************************)
(* ScannerWriter (scanner_writer.go).                                      *)
(*                                                                         *)
(* Bytes are "a" (a letter), "SP", "LF", "CR", and "xE2", "x82": the lead  *)
(* byte and the continuation byte of the three-byte rune E2 82 82.  The    *)
(* boundary functions are the four of TestScannerWriter.  A result of a    *)
(* boundary function is [adv, has, tok]: has tells token # nil.            *)
(***************************************************************************)
Bytes == {"a", "SP", "LF", "CR", "xE2", "x82"}

\* The four of TestScannerWriter, errSplitFunc of TestScannerWriterErrors,
\* which fails on every call, and peekSplitFunc, a bufio.SplitFunc of the
\* caller that returns the first byte as the token and advances by 0.
SplitFuncs ==
    {"ScanLines", "ScanWords", "ScanRunes", "ScanBytes", "errSplitFunc",
     "peekSplitFunc"}

\* Sequences of bytes of length 0..MaxInput.
Inputs == UNION {[1..n -> Bytes] : n \in 0..MaxInput}

Drop(data, n) == SubSeq(data, n + 1, Len(data))

NoToken(adv) == [adv |-> adv, has |-> FALSE, tok |-> <<>>]
Token(adv, tok) == [adv |-> adv, has |-> TRUE, tok |-> tok]

\* utf8.DecodeRune(data), len(data) > 0: the width; 1 for an encoding error.
RuneWidth(data) ==
    IF /\ Len(data) >= 3
       /\ data[1] = "xE2"
       /\ data[2] = "x82"
       /\ data[3] = "x82"
    THEN 3
    ELSE 1

\* utf8.FullRune(data), len(data) > 0: FALSE for a proper prefix of a rune.
FullRune(data) ==
    ~ \/ data = <<"xE2">>
      \/ data = <<"xE2", "x82">>

\* The rune at data[i] is white space (isSpace of bufio).
IsSpaceAt(data, i) == data[i] \in {"SP", "LF", "CR"}

\* utf8.RuneError encoded, the token ScanRunes gives for an encoding error.
errorRune == <<"xEF", "xBF", "xBD">>

\* bytes.IndexByte(data, '\n'), 0 when there is none (1-based otherwise).
IndexLF(data) ==
    IF \E i \in 1..Len(data) : data[i] = "LF"
    THEN CHOOSE i \in 1..Len(data) :
             /\ data[i] = "LF"
             /\ \A j \in 1..(i - 1) : data[j] # "LF"
    ELSE 0

dropCR(data) ==
    IF Len(data) > 0 /\ data[Len(data)] = "CR"
    THEN SubSeq(data, 1, Len(data) - 1)
    ELSE data

ScanLines(data, atEOF) ==
    IF atEOF /\ Len(data) = 0 THEN NoToken(0)
    ELSE IF IndexLF(data) > 0
    THEN Token(IndexLF(data), dropCR(SubSeq(data, 1, IndexLF(data) - 1)))
    ELSE IF atEOF THEN Token(Len(data), dropCR(data))
    ELSE NoToken(0)

ScanBytes(data, atEOF) ==
    IF atEOF /\ Len(data) = 0 THEN NoToken(0)
    ELSE Token(1, SubSeq(data, 1, 1))

ScanRunes(data, atEOF) ==
    IF atEOF /\ Len(data) = 0 THEN NoToken(0)
    ELSE IF data[1] \notin {"xE2", "x82"} THEN Token(1, SubSeq(data, 1, 1))
    ELSE IF RuneWidth(data) > 1
    THEN Token(RuneWidth(data), SubSeq(data, 1, RuneWidth(data)))
    ELSE IF ~atEOF /\ ~FullRune(data) THEN NoToken(0)
    ELSE Token(1, errorRune)

\* The first loop of ScanWords: the index (0-based) of the first rune that
\* is no white space, len(data) when there is none.
RECURSIVE SkipSpaces(_, _)
SkipSpaces(data, start) ==
    IF start < Len(data) /\ IsSpaceAt(data, start + 1)
    THEN SkipSpaces(data, start + 1)
    ELSE start

\* The second loop of ScanWords: the index (0-based) of the first white
\* space at or after i, len(data) when there is none.
RECURSIVE FindSpace(_, _)
FindSpace(data, i) ==
    IF i >= Len(data) THEN Len(data)
    ELSE IF IsSpaceAt(data, i + 1) THEN i
    ELSE FindSpace(data, i + RuneWidth(Drop(data, i)))

ScanWords(data, atEOF) ==
    LET start == SkipSpaces(data, 0)
        i == FindSpace(data, start)
    IN IF i < Len(data)
       THEN Token(i + 1, SubSeq(data, start + 1, i))
       ELSE IF atEOF /\ Len(data) > start
       THEN Token(Len(data), Drop(data, start))
       ELSE NoToken(start)

peekSplitFunc(data, atEOF) ==
    IF Len(data) = 0 THEN NoToken(0)
    ELSE Token(0, SubSeq(data, 1, 1))

\* sc.splitFunc(data, atEOF).
Split(f, data, atEOF) ==
    CASE f = "ScanLines" -> ScanLines(data, atEOF)
      [] f = "ScanWords" -> ScanWords(data, atEOF)
      [] f = "ScanRunes" -> ScanRunes(data, atEOF)
      [] f = "ScanBytes" -> ScanBytes(data, atEOF)
      [] f = "errSplitFunc" -> NoToken(0)
      [] f = "peekSplitFunc" -> peekSplitFunc(data, atEOF)

\* The error returned by sc.splitFunc(data, atEOF).
SplitErr(f, data, atEOF) == IF f = "errSplitFunc" THEN "splitErr" ELSE "nil"

\* The tokens of a bufio.Scanner with boundary function f over the whole
\* input (TestScannerWriter: sc.Scan() until it returns false; the input
\* fits the Scanner's buffer): f is applied with atEOF false until it asks
\* for more data, then with atEOF true until it returns no token.
RECURSIVE ScannerTokens(_, _, _)
ScannerTokens(f, data, atEOF) ==
    IF ~atEOF /\ Len(data) = 0 THEN ScannerTokens(f, data, TRUE)
    ELSE IF SplitErr(f, data, atEOF) # "nil" THEN <<>>
    ELSE LET r == Split(f, data, atEOF)
         IN IF r.has
            THEN IF r.adv > 0
                 THEN <<r.tok>> \o ScannerTokens(f, Drop(data, r.adv), atEOF)
                 ELSE <<r.tok>>   \* the same token again on the next Scan
            ELSE IF atEOF THEN <<>>
            ELSE IF r.adv > 0 THEN ScannerTokens(f, Drop(data, r.adv), FALSE)
            ELSE ScannerTokens(f, data, TRUE)

\* NewScannerWriter (lines 31-37) with a boundary function, a maximum buffer
\* size and a token callback that accepts ("ok") or refuses ("err") every
\* token; swInput is what the caller is going to write.
SWInit ==
    /\ swInput \in Inputs
    /\ splitFunc \in SplitFuncs
    /\ maxBufSize \in {1, MaxInput}
    /\ tokenFunc \in {"ok", "err"}
    /\ swBuf = <<>>
    /\ swClosed = FALSE
    /\ swPc = "idle"
    /\ swData = <<>>
    /\ swDataLen = 0
    /\ swPos = 0
    /\ swTokens = <<>>
    /\ swRet = [op |-> "none", n |-> 0, err |-> "nil"]
    /\ swFailed = FALSE
    /\ swEarlyFlush = FALSE
    /\ swSplits = <<>>
    /\ swSwapped = FALSE

swCfg == <<swInput, splitFunc, maxBufSize, tokenFunc>>

\* sc.tokenFunc(token): what the callback returns.
TokenFuncErr == IF tokenFunc = "ok" THEN "nil" ELSE "tokenErr"

\* Write is called with the next k bytes of the input (lines 45-57).
SWWrite(k) ==
    /\ Running
    /\ swPc = "idle"
    /\ swPos + k <= Len(swInput)
    /\ swPos' = swPos + k
    /\ IF swClosed
       THEN /\ swRet' = [op |-> "Write", n |-> 0, err |-> "ErrClosed"]
            /\ swFailed' = TRUE
            /\ UNCHANGED <<swBuf, swPc, swData, swDataLen>>
       ELSE /\ swData' = swBuf \o SubSeq(swInput, swPos + 1, swPos + k)
            /\ swDataLen' = k
            /\ swBuf' = <<>>
            /\ swPc' = "scan"
            /\ swRet' = [op |-> "none", n |-> 0, err |-> "nil"]
            /\ UNCHANGED swFailed
    /\ swSplits' = <<>>
    /\ UNCHANGED <<swCfg, swClosed, swTokens, swEarlyFlush, swSwapped,
                   panicked>>
    /\ UNCHANGED notSW

\* A Write that reports the bytes it was given even when it fails.
SWWriteReturnCounted(n, e) ==
    /\ swPc' = "idle"
    /\ swData' = <<>>
    /\ swDataLen' = 0
    /\ swRet' = [op |-> "Write", n |-> swDataLen, err |-> e]
    /\ swFailed' = (swFailed \/ e # "nil")

\* Write returns.
SWWriteReturn(n, e) ==
    /\ swPc' = "idle"
    /\ swData' = <<>>
    /\ swDataLen' = 0
    /\ swRet' = [op |-> "Write", n |-> n, err |-> e]
    /\ swFailed' = (swFailed \/ e # "nil")

\* One iteration of the loop of Write (lines 59-85); the run is cut when
\* MaxTokens tokens were given to the callback.
SWScan ==
    /\ Running
    /\ swPc = "scan"
    /\ Len(swTokens) < MaxTokens
    /\ IF Len(swData) = 0
       THEN /\ SWWriteReturn(swDataLen, "nil")
            /\ UNCHANGED <<swBuf, swTokens, swSplits>>
       ELSE LET r == Split(splitFunc, swData, FALSE)
            IN /\ swSplits' = Append(swSplits, FALSE)
               /\ IF SplitErr(splitFunc, swData, FALSE) # "nil"
                  THEN /\ SWWriteReturn(0, SplitErr(splitFunc, swData, FALSE))
                       /\ UNCHANGED <<swBuf, swTokens>>
                  ELSE IF ~r.has /\ r.adv = 0
                  THEN IF Len(swData) > maxBufSize
                       THEN /\ SWWriteReturn(0, "ErrShortBuffer")
                            /\ UNCHANGED <<swBuf, swTokens>>
                       ELSE /\ SWWriteReturn(swDataLen, "nil")
                            /\ swBuf' = swData
                            /\ UNCHANGED swTokens
                  ELSE IF r.has /\ TokenFuncErr # "nil"
                  THEN /\ SWWriteReturn(0, TokenFuncErr)
                       /\ swTokens' = Append(swTokens, r.tok)
                       /\ UNCHANGED swBuf
                  ELSE /\ swData' = Drop(swData, r.adv)
                       /\ swTokens' = IF r.has THEN Append(swTokens, r.tok)
                                      ELSE swTokens
                       /\ UNCHANGED <<swBuf, swPc, swDataLen, swRet,
                                      swFailed>>
    /\ UNCHANGED <<swCfg, swClosed, swPos, swEarlyFlush, swSwapped, panicked>>
    /\ UNCHANGED notSW

\* A Flush that calls the boundary function as Write does, without the
\* final-call flag.
FlushOpenNotFinal ==
    IF Len(swBuf) = 0
    THEN [buf |-> swBuf, tokens |-> swTokens, splits |-> <<>>, err |-> "nil"]
    ELSE LET r == Split(splitFunc, swBuf, FALSE)
         IN IF SplitErr(splitFunc, swBuf, FALSE) # "nil"
            THEN [buf |-> swBuf, tokens |-> swTokens, splits |-> <<FALSE>>,
                  err |-> SplitErr(splitFunc, swBuf, FALSE)]
            ELSE IF Len(r.tok) > 0
            THEN [buf |-> <<>>, tokens |-> Append(swTokens, r.tok),
                  splits |-> <<FALSE>>, err |-> TokenFuncErr]
            ELSE [buf |-> <<>>, tokens |-> swTokens, splits |-> <<FALSE>>,
                  err |-> "nil"]

\* The body of Flush on an open ScannerWriter (lines 97-114): the pending
\* buffer, the tokens given to the callback, and the error returned.
FlushOpen ==
    IF Len(swBuf) = 0
    THEN [buf |-> swBuf, tokens |-> swTokens, splits |-> <<>>, err |-> "nil"]
    ELSE LET r == Split(splitFunc, swBuf, TRUE)
         IN IF SplitErr(splitFunc, swBuf, TRUE) # "nil"
            THEN [buf |-> swBuf, tokens |-> swTokens, splits |-> <<TRUE>>,
                  err |-> SplitErr(splitFunc, swBuf, TRUE)]
            ELSE IF Len(r.tok) > 0
            THEN [buf |-> <<>>, tokens |-> Append(swTokens, r.tok),
                  splits |-> <<TRUE>>, err |-> TokenFuncErr]
            ELSE [buf |-> <<>>, tokens |-> swTokens, splits |-> <<TRUE>>,
                  err |-> "nil"]

\* Flush (lines 91-116).
SWFlush ==
    /\ Running
    /\ swPc = "idle"
    /\ LET e == IF swClosed THEN "ErrClosed" ELSE FlushOpen.err
       IN /\ swRet' = [op |-> "Flush", n |-> 0, err |-> e]
          /\ swFailed' = (swFailed \/ e # "nil")
    /\ swBuf' = IF swClosed THEN swBuf ELSE FlushOpen.buf
    /\ swTokens' = IF swClosed THEN swTokens ELSE FlushOpen.tokens
    /\ swSplits' = IF swClosed THEN <<>> ELSE FlushOpen.splits
    /\ swEarlyFlush' = (swEarlyFlush \/ swPos < Len(swInput))
    /\ UNCHANGED <<swCfg, swClosed, swPc, swData, swDataLen, swPos, swSwapped,
                   panicked>>
    /\ UNCHANGED notSW

\* A Close that sets the closed flag whatever its flush returned.
SWCloseAlways ==
    /\ Running
    /\ swPc = "idle"
    /\ LET e == IF swClosed THEN "ErrClosed" ELSE FlushOpen.err
       IN /\ swRet' = [op |-> "Close", n |-> 0, err |-> e]
          /\ swFailed' = (swFailed \/ e # "nil")
    /\ swClosed' = TRUE
    /\ swBuf' = IF swClosed THEN swBuf ELSE FlushOpen.buf
    /\ swTokens' = IF swClosed THEN swTokens ELSE FlushOpen.tokens
    /\ swSplits' = IF swClosed THEN <<>> ELSE FlushOpen.splits
    /\ swEarlyFlush' = (swEarlyFlush \/ swPos < Len(swInput))
    /\ UNCHANGED <<swCfg, swPc, swData, swDataLen, swPos, swSwapped, panicked>>
    /\ UNCHANGED notSW

\* Close (lines 120-134).
SWClose ==
    /\ Running
    /\ swPc = "idle"
    /\ LET e == IF swClosed THEN "ErrClosed" ELSE FlushOpen.err
       IN /\ swRet' = [op |-> "Close", n |-> 0, err |-> e]
          /\ swFailed' = (swFailed \/ e # "nil")
          /\ swClosed' = (swClosed \/ e = "nil")
    /\ swBuf' = IF swClosed THEN swBuf ELSE FlushOpen.buf
    /\ swTokens' = IF swClosed THEN swTokens ELSE FlushOpen.tokens
    /\ swSplits' = IF swClosed THEN <<>> ELSE FlushOpen.splits
    /\ swEarlyFlush' = (swEarlyFlush \/ swPos < Len(swInput))
    /\ UNCHANGED <<swCfg, swPc, swData, swDataLen, swPos, swSwapped, panicked>>
    /\ UNCHANGED notSW

\* TestScannerWriterErrors, line 174: w.tokenFunc = errTokenFunc, between
\* two calls.
SetTokenFunc ==
    /\ Running
    /\ swPc = "idle"
    /\ tokenFunc # "err"
    /\ tokenFunc' = "err"
    /\ swSwapped' = TRUE
    /\ UNCHANGED <<swBuf, maxBufSize, swClosed, splitFunc, swInput, swPos,
                   swPc, swData, swDataLen, swTokens, swRet, swFailed,
                   swEarlyFlush, swSplits, panicked>>
    /\ UNCHANGED notSW

\* TestScannerWriterErrors, line 181: w.splitFunc = errSplitFunc, between
\* two calls.
SetSplitFunc ==
    /\ Running
    /\ swPc = "idle"
    /\ splitFunc # "errSplitFunc"
    /\ splitFunc' = "errSplitFunc"
    /\ swSwapped' = TRUE
    /\ UNCHANGED <<swBuf, maxBufSize, swClosed, tokenFunc, swInput, swPos,
                   swPc, swData, swDataLen, swTokens, swRet, swFailed,
                   swEarlyFlush, swSplits, panicked>>
    /\ UNCHANGED notSW

SWNext ==
    \/ \E k \in 0..MaxInput : SWWrite(k)
    \/ SWScan
    \/ SWFlush
    \/ SWClose
    \/ SetTokenFunc
    \/ SetSplitFunc

InitSW == SWInit /\ BIdle /\ MWIdle /\ ARIdle

SpecSW == InitSW /\ [][SWNext]_vars

(***************************************************************************)
(* Properties of Broadcaster and BroadcasterReader.                        *)
(***************************************************************************)
NeverAborted == ~abort
NeverClosed == \A r \in ReaderIds : readers[r].cpc = "idle"
Returned(r) == Registered(r) /\ readers[r].rpc = "returned"

\* C1: with no Abort and no Close, and a source that ends with io.EOF,
\* Broadcast returns nil, every reader is given the bytes of the source in
\* order, and a Read returns io.EOF only after the reader was given them all.
C1_CompleteCopies ==
    (NeverAborted /\ NeverClosed /\ srcTerm = "EOF") =>
        /\ bpc = "done" => bret = "nil"
        /\ \A r \in ReaderIds :
              /\ IsPrefix(readers[r].out, source)
              /\ (Returned(r) /\ readers[r].retErr = "EOF")
                     => readers[r].out = source

\* C5: once Abort was called, Broadcast returns ErrAborted and enqueues no
\* further segment.
C5_AbortStopsBroadcast ==
    [][(abort /\ bpc \in {"idle", "read", "deliver"}) =>
          /\ bpc' = "closing" => bret' = "ErrAborted"
          /\ ~DeliverSend]_vars

\* C6: a Read that starts after Abort returns no bytes: what is queued or
\* buffered for the reader is discarded (stated for the calls that are given
\* a non-empty buffer).
C6_ReadAfterAbort ==
    \A r \in ReaderIds :
        (Returned(r) /\ readers[r].afterAbort /\ readers[r].rlen > 0) =>
            readers[r].retN = 0

\* C7: Close never fails, whatever the Broadcast goroutine does meanwhile.
C7_CloseNeverFails ==
    \A r \in ReaderIds :
        readers[r].cpc = "send" => panicked # "Close: send on closed channel"

\* C8: a delivery attempt to a reader that has signalled its detachment can
\* always complete, by an enqueue or by the detachment.
C8_ClosedReaderNeverStalls ==
    (bpc = "deliver" /\ readers[CurReader].shutdown) =>
        ENABLED (DeliverSend \/ DeliverDetach)


\* The readers of b.brs.
InBrs(r) == \E i \in 1..Len(Brs) : Brs[i] = r

\* C21: when the source fails and Abort is never called, Broadcast returns
\* the error of the source; a reader that has not called Close gets no other
\* error from Read, and gets it only after it was given every byte of the
\* source; the Close of a reader that is registered when Broadcast has
\* returned can send its condition and return nil.
C21_SourceErrorReachesReaders ==
    (NeverAborted /\ srcTerm = "SrcErr") =>
        /\ bpc = "done" => bret = "SrcErr"
        /\ \A r \in ReaderIds :
              /\ (/\ Returned(r)
                  /\ readers[r].cpc = "idle"
                  /\ readers[r].retErr # "nil") =>
                     /\ readers[r].retErr = "SrcErr"
                     /\ readers[r].out = source
              /\ (bpc = "done" /\ InBrs(r) /\ readers[r].cpc = "send") =>
                     /\ ~readers[r].errClosed
                     /\ Len(readers[r].err) < ErrChanCap

\* The conditions a reader keeps once it has returned one of them.
TerminalConds == {"ErrAborted", "ErrClosed"}

\* C25: a Read that returns ErrAborted or ErrClosed leaves that condition in
\* br.last, and from then on every Read of the reader returns 0 bytes and
\* that condition at once: it does not enter its loop, takes nothing from
\* the data queue or the error slot, and the condition never changes.
C25_TerminalConditionSticks ==
    [][\A r \in ReaderIds :
          /\ (readers'[r].rpc = "returned"
                 /\ readers'[r].retErr \in TerminalConds) =>
                 readers'[r].last = readers'[r].retErr
          /\ readers[r].last \in TerminalConds =>
                 /\ readers'[r].last = readers[r].last
                 /\ readers'[r].out = readers[r].out
                 /\ readers'[r].buf = readers[r].buf
                 /\ IsPrefix(readers[r].data, readers'[r].data)
                 /\ IsPrefix(readers[r].err, readers'[r].err)
                 /\ readers'[r].rpc # "loop"
                 /\ (readers[r].rpc = "idle"
                        /\ readers'[r].rpc = "returned") =>
                        /\ readers'[r].retN = 0
                        /\ readers'[r].retErr = readers[r].last]_vars

\* A Read with a non-empty buffer has returned ErrClosed although a segment
\* is queued for the reader: the condition was returned before, by a Read
\* with an empty buffer.
C25_Witness ==
    \E r \in ReaderIds :
        /\ Returned(r)
        /\ readers[r].rlen >= 1
        /\ readers[r].retErr = "ErrClosed"
        /\ readers[r].last = "ErrClosed"
        /\ readers[r].data # <<>>

\* b.brs holds every reader that was registered and has not been detached,
\* once.
BrsExact ==
    /\ \A i, j \in 1..Len(Brs) : Brs[i] = Brs[j] => i = j
    /\ \A r \in ReaderIds :
          InBrs(r) <=> (Registered(r) /\ ~readers[r].errClosed)

C27_NoCleanEndOnTruncation ==
    [][/\ \A r \in ReaderIds :
             (readers'[r].rpc = "returned" /\ readers'[r].retErr = "EOF") =>
                 readers'[r].out = source
       /\ (BroadcastSendErr /\ bret = "ErrAborted") =>
             \A r \in ReaderIds : readers'[r].err = readers[r].err]_vars

(***************************************************************************)
(* Properties of MultiWriter.                                              *)
(***************************************************************************)
NoSinkFails ==
    \A i \in SinkIds : sinks[i].write = "ok" /\ sinks[i].close # "err"

\* C2: when no sink fails, every Write made before Close returns the length
\* of its payload and no error, and once Close has returned every sink holds
\* the concatenation of the payloads written before Close, in write order.
C2_SinksGetAllPayloads ==
    NoSinkFails =>
        /\ (upc = "wrote" /\ ~closed) =>
               (uRetN = Len(uData) /\ uRetErr = "nil")
        /\ (closeCalls >= 1 /\ upc # "wait") =>
               \A i \in SinkIds : sinkData[i] = written

\* Close has returned for two sinks that do not fail, after two Writes with
\* payloads of two bytes.
C2_Witness ==
    /\ NoSinkFails
    /\ Len(sinks) = 2
    /\ upc = "closed"
    /\ closeCalls = 1
    /\ written = <<1, 1, 2, 2>>
    /\ \A i \in SinkIds : sinkData[i] = written

\* C9: Close terminates for every combination of sink failures: while Close
\* waits for the workers, some worker can take a step or Close can go on; no
\* worker stays blocked for ever.
C9_CloseTerminates ==
    (Running /\ upc = "wait") =>
        \/ ENABLED CloseWait
        \/ \E i \in SinkIds :
              ENABLED (WorkerRecv(i) \/ WorkerSendErr(i) \/ WorkerDefer(i)
                         \/ WorkerSendCloseErr(i))

\* C10: a Close of a MultiWriter that was closed before returns ErrClosed
\* and does not repeat the shutdown, whether or not a Write was made before
\* the first Close.
C10_SecondCloseReturnsErrClosed ==
    closeCalls >= 2 =>
        /\ panicked = "none"
        /\ upc = "closed" => uRetErr = "ErrClosed"


\* C11: Close returns the first error a worker has observed (a write error,
\* a short write or a close error), and nil only if no write and no close of
\* a sink has failed.
C11_CloseReturnsFirstError ==
    (closeCalls = 1 /\ upc = "closed") => uRetErr = firstErr

\* A single sink whose writes fail, behind an unbuffered queue, and no Close.
OneFailingSink ==
    /\ Len(sinks) = 1
    /\ sinks[1].write # "ok"
    /\ WriteChanLength = 0
    /\ closeCalls = 0

\* C12: with a single sink, queue capacity 0 and a sink whose first write
\* fails, the first Write returns the full length and no error, and the
\* second Write returns 0 and the error of the sink (io.ErrShortWrite for a
\* short write); the second Write does not stay blocked.
C12_ErrorOnNextWrite ==
    OneFailingSink =>
        /\ (upc = "wrote" /\ writeCalls = 1) =>
               (uRetN = Len(uData) /\ uRetErr = "nil")
        /\ (upc = "wrote" /\ writeCalls = 2) =>
               /\ uRetN = 0
               /\ uRetErr = IF sinks[1].write = "short" THEN "ErrShortWrite"
                            ELSE "writeErr"
        /\ (upc = "write" /\ writeCalls = 2) =>
               \/ ENABLED WriteRecvErr
               \/ ENABLED (WorkerRecv(1) \/ WorkerSendErr(1))

\* The second Write on a short-writing sink has returned.
C12_Witness ==
    /\ OneFailingSink
    /\ sinks[1].write = "short"
    /\ upc = "wrote"
    /\ writeCalls = 2
    /\ uRetN = 0
    /\ uRetErr = "ErrShortWrite"

\* Close has been called and is not waiting: it has returned.
MWCloseReturned == closeCalls >= 1 /\ upc # "wait"

\* C13: once Close has returned, every Write returns (0, ErrClosed) at once,
\* without entering its loop, and no sink is given another byte.
C13_WriteAfterClose ==
    [][MWCloseReturned =>
          /\ sinkData' = sinkData
          /\ wc' = wc
          /\ upc' # "write"
          /\ upc' = "wrote" => (uRetN' = 0 /\ uRetErr' = "ErrClosed")]_vars

\* A Write made after Close, on a MultiWriter whose sink holds bytes, has
\* returned.
C13_Witness ==
    /\ closeCalls = 1
    /\ upc = "wrote"
    /\ uRetErr = "ErrClosed"
    /\ Len(sinks) >= 1
    /\ sinkData[1] # <<>>

\* Some worker has left its loop although its queue is open: its sink failed.
SomeWorkerStopped ==
    \E i \in SinkIds : wpc[i] \notin {"none", "recv"} /\ ~wcClosed[i]

\* C23: once a worker has stopped because its sink failed, a Write in its
\* loop is never blocked for ever: it can enqueue, take an error or return,
\* or some worker can still take a step.
C23_WriteNeverBlocks ==
    (Running /\ upc = "write" /\ SomeWorkerStopped) =>
        \/ ENABLED (WriteSend \/ WriteRecvErr \/ WriteReturn)
        \/ \E i \in SinkIds :
              ENABLED (WorkerRecv(i) \/ WorkerSendErr(i) \/ WorkerDefer(i)
                         \/ WorkerSendCloseErr(i))

\* C24: when the first Close has returned, whatever Writes were made before
\* it (none included), every sink that is an io.WriteCloser has been closed
\* exactly once, a sink that is no io.WriteCloser never, and no payload is
\* left in the queue of a sink whose writes do not fail.
C24_SinksClosedOnce ==
    (closeCalls = 1 /\ upc = "closed") =>
        \A i \in SinkIds :
            /\ sinkCloses[i] = IF sinks[i].close = "none" THEN 0 ELSE 1
            /\ sinks[i].write = "ok" => wc[i] = <<>>

(***************************************************************************)
(* Properties of AsyncReader.                                              *)
(***************************************************************************)
\* C3: for every source that ends with end-of-data, every BufferSize and
\* every ChannelSize, a started AsyncReader that is read until it reports
\* end-of-data does report it, and has then delivered the bytes of the
\* source in order.
C3_ReadAllTerminates ==
    arTerm = "EOF" =>
        <>(arRpc = "returned" /\ arRetErr = "EOF" /\ arOut = arSource)


\* C18: a Read returns io.EOF only when the caller has been given every byte
\* of the source and the source ended with io.EOF.
C18_EOFOnlyAtEnd ==
    (arRpc = "returned" /\ arRetErr = "EOF") =>
        (arOut = arSource /\ arTerm = "EOF")

\* C19: once Close has been called, the goroutine puts no further segment on
\* the channel, and a Read that returns, whether it was in progress or was
\* called afterwards, returns (0, nil): the caller is given no more bytes.
C19_NoDataAfterClose ==
    [][arAbort =>
          /\ Len(arC') <= Len(arC)
          /\ arOut' = arOut
          /\ (/\ arRpc' = "returned"
              /\ (\E n \in 0..MaxReadLen : ARRead(n)) \/ ARReadSelect \/ ARSend) =>
                 (arRetN' = 0 /\ arRetErr' = "nil")]_vars

\* C20: a second Abort of a Broadcaster, or a second Close of an
\* AsyncReader, completes normally and leaves the instance aborted as the
\* first call left it.
C20_SecondSignalHarmless ==
    [][/\ (arAbort /\ ARClose) => (panicked' = "none" /\ arAbort')
       /\ (abort /\ Abort) => (panicked' = "none" /\ abort')]_vars

\* C22: when the source fails after k bytes, a consumer that reads until
\* Read returns an error is given bytes of the source in order, and the
\* error it gets is the error of the source, after all k bytes.
C22_BytesBeforeFailure ==
    arTerm = "SrcErr" =>
        /\ IsPrefix(arOut, arSource)
        /\ (arRpc = "returned" /\ arRetErr # "nil") =>
               (arRetErr = "SrcErr" /\ arOut = arSource)

(***************************************************************************)
(* Properties of ScannerWriter.                                            *)
(***************************************************************************)
\* C4: for every input, every boundary function and every cutting of the
\* input into Write calls followed by one Flush (no call failing), the
\* tokens given to the callback are the tokens a sequential scanner gets
\* with the same boundary function from the whole input.
C4_TokensAsScanner ==
    (/\ swRet.op = "Flush"
     /\ swPos = Len(swInput)
     /\ ~swFailed
     /\ ~swSwapped
     /\ ~swEarlyFlush) =>
        swTokens = ScannerTokens(splitFunc, swInput, FALSE)

\* C14: the closed flag changes only from open to closed, in a Close whose
\* flush returned nil; on a closed instance a call returns ErrClosed (and 0
\* bytes) without calling the boundary function or the callback and without
\* touching the pending buffer.
C14_ClosedIsFinal ==
    [][/\ swClosed' # swClosed =>
             /\ ~swClosed
             /\ swClosed'
             /\ FlushOpen.err = "nil"
             /\ swRet' = [op |-> "Close", n |-> 0, err |-> "nil"]
       /\ swClosed =>
             /\ swBuf' = swBuf
             /\ swTokens' = swTokens
             /\ swPc' = "idle"
             /\ \/ /\ swRet'.n = 0
                   /\ swRet'.err = "ErrClosed"
                   /\ swSplits' = <<>>
                \/ UNCHANGED <<swRet, swPos, swSplits>>]_vars

\* A Write on an instance that was closed after it had emitted tokens has
\* returned ErrClosed.
C14_Witness ==
    /\ swClosed
    /\ swTokens # <<>>
    /\ swRet = [op |-> "Write", n |-> 0, err |-> "ErrClosed"]
    /\ swPos > 0

\* C15: a Close whose flush failed returns that error and leaves the
\* instance open, and a Close called right after it (nothing written, no
\* function replaced) returns the same error again.
C15_CloseFailsAgain ==
    [][(/\ swRet.op = "Close"
        /\ swRet.err \notin {"nil", "ErrClosed"}) =>
           /\ ~swClosed
           /\ SWClose => (swRet'.err = swRet.err /\ ~swClosed')]_vars

\* The step is the return of a Write on an open instance.
SWWriteReturns == swPc = "scan" /\ swPc' = "idle"

\* The last call was a Write on an open instance, and it failed.
SWWriteFailed ==
    /\ swRet.op = "Write"
    /\ swRet.err \notin {"nil", "ErrClosed"}

\* C16: a Write on an open instance returns (len(data), nil) or (0, err); err
\* is the error of the boundary function if it fails, else the error of the
\* callback if it refuses the token, else io.ErrShortBuffer, which is
\* returned exactly when the boundary function neither advances nor gives a
\* token on a tail longer than the maximum.  A failed Write leaves nothing
\* pending, so the Flush that follows emits no token and returns nil.  The
\* pending buffer is never longer than the maximum.
C16_WriteResult ==
    [][/\ SWWriteReturns =>
             LET r == Split(splitFunc, swData, FALSE)
                 splitErr == IF swData = <<>> THEN "nil"
                             ELSE SplitErr(splitFunc, swData, FALSE)
                 tail == swData # <<>> /\ splitErr = "nil"
                             /\ ~r.has /\ r.adv = 0
             IN /\ \/ swRet'.n = swDataLen /\ swRet'.err = "nil"
                   \/ swRet'.n = 0 /\ swRet'.err # "nil"
                /\ splitErr # "nil" => swRet'.err = splitErr
                /\ swRet'.err = "ErrShortBuffer" <=>
                       (tail /\ Len(swData) > maxBufSize)
                /\ swRet'.err \notin {"nil", "ErrShortBuffer"} =>
                       \/ swRet'.err = splitErr
                       \/ /\ splitErr = "nil"
                          /\ r.has
                          /\ swRet'.err = TokenFuncErr
                /\ swRet'.err # "nil" => swBuf' = <<>>
       /\ (SWWriteFailed /\ SWFlush) =>
             /\ swTokens' = swTokens
             /\ swSplits' = <<>>
             /\ swRet' = [op |-> "Flush", n |-> 0, err |-> "nil"]
       /\ Len(swBuf') <= maxBufSize]_vars

\* A Write whose bytes, added to pending ones, made an incomplete tail longer
\* than the maximum has returned io.ErrShortBuffer.
C16_Witness ==
    /\ swRet = [op |-> "Write", n |-> 0, err |-> "ErrShortBuffer"]
    /\ swPos >= 2
    /\ maxBufSize = 1
    /\ swSplits # <<>>
    /\ swBuf = <<>>

\* What a Flush step on an open instance does to the tokens and to the
\* record of boundary-function calls: nothing when no byte is pending, else
\* one final call on the pending bytes, whose token goes to the callback
\* exactly if it is not empty.
FlushCallsOnce ==
    IF swBuf = <<>>
    THEN /\ swTokens' = swTokens
         /\ swSplits' = <<>>
         /\ swBuf' = <<>>
         /\ swRet' = [op |-> "Flush", n |-> 0, err |-> "nil"]
    ELSE LET r == Split(splitFunc, swBuf, TRUE)
             failed == SplitErr(splitFunc, swBuf, TRUE) # "nil"
         IN /\ swSplits' = <<TRUE>>
            /\ swTokens' = IF ~failed /\ r.tok # <<>>
                           THEN Append(swTokens, r.tok)
                           ELSE swTokens

\* A token that a step of Write gives to the callback under bufio.ScanWords
\* is followed by a space in the data of the Write: the bytes after the last
\* space are not emitted by Write.
WriteEmitsBoundedWords ==
    (swPc = "scan" /\ splitFunc = "ScanWords" /\ swTokens' # swTokens) =>
        LET r == Split(splitFunc, swData, FALSE)
        IN /\ r.adv <= Len(swData)
           /\ IsSpaceAt(swData, r.adv)
           /\ swTokens' = Append(swTokens, r.tok)

\* C17 as stated: Flush on an open instance is a no-op returning nil when
\* nothing is pending; otherwise it calls the boundary function once, with
\* the final-call flag, gives the token to the callback only if it is not
\* empty, and leaves the pending buffer empty; Write never emits the bytes
\* that follow the last boundary.
C17_FlushEmptiesBuffer ==
    [][/\ (~swClosed /\ SWFlush) => (FlushCallsOnce /\ swBuf' = <<>>)
       /\ WriteEmitsBoundedWords]_vars

\* C17, amended: as above, but the pending buffer is left empty only if the
\* boundary function did not fail; if it failed, Flush returns its error,
\* gives nothing to the callback and keeps the pending bytes.
C17_FlushOnce ==
    [][/\ (~swClosed /\ SWFlush) =>
             /\ FlushCallsOnce
             /\ IF swBuf # <<>> /\ SplitErr(splitFunc, swBuf, TRUE) # "nil"
                THEN /\ swBuf' = swBuf
                     /\ swTokens' = swTokens
                     /\ swRet'.err = SplitErr(splitFunc, swBuf, TRUE)
                ELSE swBuf' = <<>>
       /\ WriteEmitsBoundedWords]_vars

\* "a a" was written under bufio.ScanWords: Write emitted the first word,
\* and the Flush that has just returned emitted the word after the space.
C17_Witness ==
    /\ splitFunc = "ScanWords"
    /\ swInput = <<"a", "SP", "a">>
    /\ swPos = 3
    /\ swRet = [op |-> "Flush", n |-> 0, err |-> "nil"]
    /\ swSplits = <<TRUE>>
    /\ swTokens = << <<"a">>, <<"a">> >>
    /\ swBuf = <<>>
    /\ ~swSwapped


\* C28: every iteration of the scanning loop of Write either returns or
\* leaves strictly fewer bytes to scan, whatever the boundary function
\* returned, so that Write returns after at most len(data) iterations.
C28_WriteTerminates ==
    [][SWScan => (swPc' = "idle" \/ Len(swData') < Len(swData))]_vars

=============================================================================
